---- MODULE Spec2Model ----
(***************************************************************************)
(* Model of drivers/nvmem/rockchip-otp.c: the Rockchip OTP read path.      *)
(*                                                                         *)
(* The driver is modelled as a sequential program (one read call at a      *)
(* time, as the nvmem core serialises them) running against the OTP        *)
(* controller.  The controller is the environment: a mode-control          *)
(* register that holds the value last written, status bits the hardware    *)
(* raises when a requested transition completes (inside the poll window,   *)
(* after it, or never) and that the driver clears by writing them back.    *)
(*                                                                         *)
(* Integers: TLC integers are 32-bit signed, so values of the driver's     *)
(* u32 / size_t variables are kept far below the wrap-around point by the  *)
(* bounds on the inputs; register values with the upper half-word used as  *)
(* a write mask are kept as (value, mask) pairs of 16-bit numbers.         *)
(***************************************************************************)
EXTENDS Integers, Sequences, FiniteSets, TLC

(* ---- bounds of the model ---------------------------------------------- *)
MaxCalls == 2       \* read calls in one behaviour
MaxLen   == 4       \* largest requested length
MaxOff   == 1       \* requested offsets 0 .. MaxOff, plus the tail below
TailOff  == 2       \* variant B: offsets size - TailOff .. size + 1

(* ---- program constants ------------------------------------------------ *)
OTPC_DEEP_STANDBY         == 0
OTPC_STANDBY              == 1
OTPC_ACTIVE               == 2
OTPC_READ_ACCESS          == 3
OTPC_TRANS_NUM            == 1
OTPC_RDM_IRQ_ST           == 1
OTPC_STB2ACT_IRQ_ST       == 128
OTPC_DP2STB_IRQ_ST        == 256
OTPC_ACT2STB_IRQ_ST       == 512
OTPC_STB2DP_IRQ_ST        == 1024
RK3308BS_NBYTES           == 4
RK3308BS_NO_SECURE_OFFSET == 224
OTPC_USE_USER             == 1
OTPC_USER_FSM_ENABLE      == 1
OTPC_SBPI_DONE            == 2
OTPC_USER_DONE            == 4
SBPI_DAP_ADDR             == 2
SBPI_DAP_ADDR_SHIFT       == 8
SBPI_DAP_CMD_WRF          == 192
SBPI_DAP_REG_ECC          == 58
SBPI_ECC_ENABLE           == 0
SBPI_ECC_DISABLE          == 9
SBPI_ENABLE               == 1
OTPC_TIMEOUT              == 10000
ENOMEM                    == 12
ETIMEDOUT                 == 110
EINVAL                    == 22
EIO                       == 5

\* upper half-word write masks, as the 16-bit number of the masked bits
OTPC_USER_ADDR_MASK       == 65535
OTPC_USE_USER_MASK        == 1
OTPC_USER_FSM_ENABLE_MASK == 1
SBPI_DAP_ADDR_MASK        == 65280
SBPI_CMD_VALID_MASK       == 65535
SBPI_ENABLE_MASK          == 1

Untouched == 0 - 1     \* a byte of the caller's buffer the call has not written

ClockSet == {"clk", "pclk", "pclk_phy"}

\* negative errno values the clock and reset services may return
ClkErrs == {-EINVAL, -EIO}
RstErrs == {-EINVAL, -EIO}

(* ---- variant descriptors and the selector ----------------------------- *)
px30_data     == [size |-> 64,  reg_read |-> "px30_otp_read"]
rk3308bs_data == [size |-> 128, reg_read |-> "rk3308bs_otp_read"]

Compatibles == {"rockchip,px30-otp", "rockchip,px30s-otp",
                "rockchip,rk3308-otp", "rockchip,rk3308bs-otp"}
Socs == {"px30", "px30s", "rk3308", "rk3308bs"}

rockchip_otp_match(compatible) ==
  IF compatible \in {"rockchip,px30s-otp", "rockchip,rk3308bs-otp"}
  THEN rk3308bs_data ELSE px30_data

soc_is_rk3308bs(soc) == soc = "rk3308bs"
soc_is_px30s(soc) == soc = "px30s"

\* a slip: the descriptor of the matched entry is used whatever the SoC is
rockchip_otp_probe_matched(compatible, soc) == rockchip_otp_match(compatible)

rockchip_otp_probe(compatible, soc) ==
  IF soc_is_rk3308bs(soc) \/ soc_is_px30s(soc)
  THEN rk3308bs_data
  ELSE rockchip_otp_match(compatible)

(* ---- the fuse array --------------------------------------------------- *)
\* byte b of the word at hardware word address a
OtpWordByte(a, b) == (RK3308BS_NBYTES * a + b) % 128
\* the 32-bit word at hardware word address a
OtpWord(a) == OtpWordByte(a, 0) + 256 * OtpWordByte(a, 1)
              + 65536 * OtpWordByte(a, 2) + 16777216 * OtpWordByte(a, 3)
\* the byte the user-mode (variant A) interface returns for address a
OtpByte(a) == (3 * a + 1) % 256

(* ---- arithmetic helpers of the kernel --------------------------------- *)
rounddown(x, y) == x - (x % y)
roundup(x, y) == ((x + (y - 1)) \div y) * y

\* the bytes of a u32 as memcpy sees them on the little-endian CPU
WordBytes(w) == << w % 256, (w \div 256) % 256,
                   (w \div 65536) % 256, (w \div 16777216) % 256 >>

\* memcpy(dst + at, src + from, n) on byte sequences (0-based at/from)
memcpy(dst, at, src, from, n) ==
  [k \in 1..Len(dst) |->
     IF k > at /\ k <= at + n THEN src[from + (k - at)] ELSE dst[k]]

(* ---- events recorded for the current call ----------------------------- *)
Ev(op, reg, v, m) == [op |-> op, reg |-> reg, v |-> v, m |-> m]

(* ---- state ------------------------------------------------------------ *)
VARIABLES
  data,        \* otp->data, fixed at attach
  pc,          \* position of the running read call
  calls,       \* read calls started so far
  offset,      \* parameter offset (incremented by variant A)
  bytes,       \* parameter bytes (clamped by variant B, counted down by A)
  val,         \* the caller's output buffer
  bufpos,      \* variant A: buf - val
  ret,         \* local ret
  clk_en,      \* enable state of the three clocks
  rst,         \* TRUE while the PHY reset line is asserted
  hw,          \* the controller's registers and in-flight operations
  loc,         \* locals of rk3308bs_otp_read
  sret,        \* value returned by rk3308bs_otp_standby
  log,         \* events of the current call, in program order
  dev,         \* the platform device: its node, its SoC, what probe registered
  poll         \* a status poll followed time-unit by time-unit

vars == << data, pc, calls, offset, bytes, val, bufpos, ret, clk_en, rst,
           hw, loc, sret, log, dev, poll >>

AllClocksOn == \A c \in ClockSet : clk_en[c] = 1

(* ---- the controller --------------------------------------------------- *)
HwInit ==
  [ MODE_CTRL   |-> OTPC_DEEP_STANDBY,
    IRQ_ST      |-> {},      \* set status bits of OTPC_IRQ_ST
    pending     |-> {},      \* bits the hardware has still to raise
    ACCESS_ADDR |-> 0,
    RD_DATA     |-> 0,
    TRANS_NUM   |-> 0,
    INT_STATUS  |-> {},      \* set status bits of OTPC_INT_STATUS
    USER_CTRL   |-> 0,
    USER_ADDR   |-> 0,
    USER_Q      |-> 0 ]

\* the status bit that reports the completion of a mode-control write
TransFlag(old, new) ==
  CASE new = OTPC_READ_ACCESS -> {OTPC_RDM_IRQ_ST}
    [] old = OTPC_DEEP_STANDBY /\ new = OTPC_STANDBY -> {OTPC_DP2STB_IRQ_ST}
    [] old = OTPC_STANDBY /\ new = OTPC_ACTIVE -> {OTPC_STB2ACT_IRQ_ST}
    [] old = OTPC_ACTIVE /\ new = OTPC_STANDBY -> {OTPC_ACT2STB_IRQ_ST}
    [] old = OTPC_STANDBY /\ new = OTPC_DEEP_STANDBY -> {OTPC_STB2DP_IRQ_ST}
    [] OTHER -> {}

\* writel(v, OTPC_MODE_CTRL)
HwWriteMode(h, v) ==
  [h EXCEPT !.MODE_CTRL = v,
            !.pending = h.pending \cup TransFlag(h.MODE_CTRL, v)]

\* the hardware completes the operation reported by status bit f
HwComplete(h, f) ==
  IF f \in {OTPC_SBPI_DONE, OTPC_USER_DONE}
  THEN [h EXCEPT !.pending = h.pending \ {f},
                 !.INT_STATUS = h.INT_STATUS \cup {f},
                 !.USER_Q = IF f = OTPC_USER_DONE
                            THEN OtpByte(h.USER_ADDR) ELSE h.USER_Q]
  ELSE [h EXCEPT !.pending = h.pending \ {f},
                 !.IRQ_ST = h.IRQ_ST \cup {f},
                 !.RD_DATA = IF f = OTPC_RDM_IRQ_ST
                             THEN OtpWord(h.ACCESS_ADDR) ELSE h.RD_DATA,
                 !.MODE_CTRL = IF f = OTPC_RDM_IRQ_ST
                                  /\ h.MODE_CTRL = OTPC_READ_ACCESS
                               THEN OTPC_ACTIVE ELSE h.MODE_CTRL]

(* ---- construction ----------------------------------------------------- *)
\* no status poll is being followed
NoPoll == [pc |-> "none", reg |-> "none", flag |-> 0, elapsed |-> 0, ret |-> 0,
           raised |-> FALSE]

\* the device once probe has returned: the node and the SoC are not looked at
\* again, the size is the one handed to the nvmem core
Attached(d) == [compatible |-> "any", soc |-> "any", size |-> d.size, bound |-> TRUE]

NoLocals ==
  [ addr_start |-> 0, addr_offset |-> 0, addr_len |-> 0, i |-> 0,
    buf |-> << >> ]

Init ==
  /\ \E compatible \in Compatibles, soc \in Socs :
       data = rockchip_otp_probe(compatible, soc)
  /\ pc = "idle"
  /\ calls = 0
  /\ offset = 0
  /\ bytes = 0
  /\ val = << >>
  /\ bufpos = 0
  /\ ret = 0
  /\ clk_en = [c \in ClockSet |-> 0]
  /\ rst = FALSE
  /\ hw = HwInit
  /\ loc = NoLocals
  /\ sret = 0
  /\ log = << >>
  /\ dev = Attached(data)
  /\ poll = NoPoll

(* ---- requests --------------------------------------------------------- *)
\* variant B checks the offset against size, so its requests go up to and
\* past the end; variant A has no check, and one offset near the end shows it
Offsets ==
  IF data.reg_read = "rk3308bs_otp_read"
  THEN (0 .. MaxOff) \cup ((data.size - TailOff) .. (data.size + 1))
  ELSE (0 .. MaxOff) \cup {data.size - 1}
Lengths == 0 .. MaxLen

(* ---- the dispatcher --------------------------------------------------- *)
\* rockchip_otp_read: forwards (offset, val, bytes) to otp->data->reg_read
rockchip_otp_read(o, n) ==
  /\ pc = "idle"
  /\ calls < MaxCalls
  /\ calls' = calls + 1
  /\ offset' = o
  /\ bytes' = n
  /\ val' = [k \in 1..n |-> Untouched]
  /\ bufpos' = 0
  /\ ret' = 0
  /\ sret' = 0
  /\ loc' = NoLocals
  /\ log' = << Ev("call", data.reg_read, o, n) >>
  /\ pc' = IF data.reg_read = "px30_otp_read" THEN "px30_clk" ELSE "rk3308bs_check"
  /\ UNCHANGED << dev, poll, data, clk_en, rst, hw >>

\* the call returns ret to the storage provider
Return ==
  /\ pc = "return"
  /\ pc' = "idle"
  /\ UNCHANGED << dev, poll, data, calls, offset, bytes, val, bufpos, ret, clk_en, rst,
                  hw, loc, sret, log >>

(* ---- steps shared in shape by both engines ---------------------------- *)
\* ret = clk_prepare_enable(c); if (ret < 0) goto failpc
ClkPrepareEnable(c, okpc, failpc) ==
  /\ \/ /\ clk_en' = [clk_en EXCEPT ![c] = 1]
        /\ log' = Append(log, Ev("enable", c, 0, 0))
        /\ pc' = okpc
        /\ UNCHANGED ret
     \/ \E e \in ClkErrs :
          /\ ret' = e
          /\ log' = Append(log, Ev("enable", c, e, 0))
          /\ pc' = failpc
          /\ UNCHANGED clk_en
  /\ UNCHANGED << dev, poll, data, calls, offset, bytes, val, bufpos, rst, hw, loc, sret >>

\* clk_disable_unprepare(c)
ClkDisableUnprepare(c, nextpc) ==
  /\ clk_en' = [clk_en EXCEPT ![c] = 0]
  /\ log' = Append(log, Ev("disable", c, clk_en[c], 0))
  /\ pc' = nextpc
  /\ UNCHANGED << dev, poll, data, calls, offset, bytes, val, bufpos, ret, rst, hw, loc,
                  sret >>

\* rockchip_otp_reset, first half: reset_control_assert
ResetAssert(okpc, failpc) ==
  /\ \/ /\ rst' = TRUE
        /\ log' = Append(log, Ev("reset_assert", "otp_phy", 0, 0))
        /\ pc' = okpc
        /\ UNCHANGED ret
     \/ \E e \in RstErrs :
          /\ ret' = e
          /\ log' = Append(log, Ev("reset_assert", "otp_phy", e, 0))
          /\ pc' = failpc
          /\ UNCHANGED rst
  /\ UNCHANGED << dev, poll, data, calls, offset, bytes, val, bufpos, clk_en, hw, loc,
                  sret >>

\* rockchip_otp_reset, second half: udelay(2); reset_control_deassert
ResetDeassert(okpc, failpc) ==
  /\ \/ /\ rst' = FALSE
        /\ ret' = 0
        /\ log' = Append(log, Ev("reset_deassert", "otp_phy", 0, 0))
        /\ pc' = okpc
     \/ \E e \in RstErrs :
          /\ ret' = e
          /\ log' = Append(log, Ev("reset_deassert", "otp_phy", e, 0))
          /\ pc' = failpc
          /\ UNCHANGED rst
  /\ UNCHANGED << dev, poll, data, calls, offset, bytes, val, bufpos, clk_en, hw, loc,
                  sret >>

(* ---- rk3308bs_otp_wait_status ---------------------------------------- *)
\* the results the poll of OTPC_IRQ_ST for flag can have: it matches when the
\* bit is set or the hardware raises it inside the poll window, and it times
\* out when the bit is not set and the hardware does not raise it in time
rk3308bs_poll_results(h, flag) ==
  {r \in {0, -ETIMEDOUT} :
     \/ r = 0 /\ flag \in (h.IRQ_ST \cup h.pending)
     \/ r = -ETIMEDOUT /\ flag \notin h.IRQ_ST}

\* a slip: the acknowledge clears the whole status register
rk3308bs_clean_int_status_all(st, flag) == {}

\* the bits left in OTPC_IRQ_ST by writel(flag, otp->base + OTPC_IRQ_ST)
rk3308bs_clean_int_status(st, flag) == st \ {flag}

\* the controller after rk3308bs_otp_wait_status(otp, flag) returned r
rk3308bs_otp_wait_status(h, flag, r) ==
  IF r = 0
  THEN LET seen == IF flag \in h.IRQ_ST THEN h ELSE HwComplete(h, flag)
       IN  [seen EXCEPT !.IRQ_ST = rk3308bs_clean_int_status(seen.IRQ_ST, flag)]
  ELSE h

\* the events of rk3308bs_otp_wait_status(otp, flag) returning r
rk3308bs_wait_events(flag, r) ==
  IF r = 0
  THEN << Ev("poll", "OTPC_IRQ_ST", flag, 0), Ev("writel", "OTPC_IRQ_ST", flag, 0) >>
  ELSE << Ev("poll", "OTPC_IRQ_ST", flag, r) >>

(* ---- rk3308bs_otp_read: bounds check and gate ------------------------- *)
\* a slip: the bounds check written with > for >=
rk3308bs_out_of_range_gt(o, size) == o > size

\* if (offset >= otp->data->size) return -ENOMEM
rk3308bs_out_of_range(o, size) == o >= size

\* a slip: the length is not clamped to the declared size
rk3308bs_clamp_none(o, n, size) == n

\* if (offset + bytes > size) bytes = size - offset
rk3308bs_clamp(o, n, size) == IF o + n > size THEN size - o ELSE n

rk3308bs_check ==
  /\ pc = "rk3308bs_check"
  /\ IF rk3308bs_out_of_range(offset, data.size)
     THEN /\ ret' = -ENOMEM
          /\ pc' = "return"
          /\ UNCHANGED bytes
     ELSE /\ bytes' = rk3308bs_clamp(offset, bytes, data.size)
          /\ pc' = "rk3308bs_clk"
          /\ UNCHANGED ret
  /\ UNCHANGED << dev, poll, data, calls, offset, val, bufpos, clk_en, rst, hw, loc, sret,
                  log >>

rk3308bs_clk ==
  /\ pc = "rk3308bs_clk"
  /\ ClkPrepareEnable("clk", "rk3308bs_pclk", "return")

\* a slip: the failure of the second enable returns without disabling clk
rk3308bs_pclk_leak ==
  /\ pc = "rk3308bs_pclk"
  /\ ClkPrepareEnable("pclk", "rk3308bs_pclk_phy", "return")

rk3308bs_pclk ==
  /\ pc = "rk3308bs_pclk"
  /\ ClkPrepareEnable("pclk", "rk3308bs_pclk_phy", "rk3308bs_otp_clk")

\* a slip: the result of the third enable is not tested
rk3308bs_pclk_phy_unchecked ==
  /\ pc = "rk3308bs_pclk_phy"
  /\ ClkPrepareEnable("pclk_phy", "rk3308bs_reset", "rk3308bs_reset")

rk3308bs_pclk_phy ==
  /\ pc = "rk3308bs_pclk_phy"
  /\ ClkPrepareEnable("pclk_phy", "rk3308bs_reset", "rk3308bs_opt_pclk")

rk3308bs_reset ==
  /\ pc = "rk3308bs_reset"
  /\ ResetAssert("rk3308bs_deassert", "rk3308bs_opt_pclk_phy")

rk3308bs_deassert ==
  /\ pc = "rk3308bs_deassert"
  /\ ResetDeassert("rk3308bs_active", "rk3308bs_opt_pclk_phy")

(* ---- rk3308bs_otp_active ---------------------------------------------- *)
\* the case label the switch of rk3308bs_otp_active jumps to
\* a slip: the standby case starts the walk at the deep-standby label
rk3308bs_active_case_deep(mode) ==
  CASE mode \in {OTPC_DEEP_STANDBY, OTPC_STANDBY} -> "rk3308bs_active_deep"
    [] OTHER -> "rk3308bs_window"

rk3308bs_active_case(mode) ==
  CASE mode = OTPC_DEEP_STANDBY -> "rk3308bs_active_deep"
    [] mode = OTPC_STANDBY -> "rk3308bs_active_standby"
    [] OTHER -> "rk3308bs_window"

\* mode = readl(otp->base + OTPC_MODE_CTRL); switch (mode)
rk3308bs_active ==
  /\ pc = "rk3308bs_active"
  /\ log' = Append(log, Ev("readl", "OTPC_MODE_CTRL", hw.MODE_CTRL, 0))
  /\ pc' = rk3308bs_active_case(hw.MODE_CTRL)
  /\ ret' = 0
  /\ UNCHANGED << dev, poll, data, calls, offset, bytes, val, bufpos, clk_en, rst, hw,
                  loc, sret >>

\* case OTPC_DEEP_STANDBY: writel(OTPC_STANDBY, ...)
rk3308bs_active_deep ==
  /\ pc = "rk3308bs_active_deep"
  /\ hw' = HwWriteMode(hw, OTPC_STANDBY)
  /\ log' = Append(log, Ev("writel", "OTPC_MODE_CTRL", OTPC_STANDBY, 0))
  /\ pc' = "rk3308bs_active_dp2stb"
  /\ UNCHANGED << dev, poll, data, calls, offset, bytes, val, bufpos, ret, clk_en, rst,
                  loc, sret >>

\* ret = rk3308bs_otp_wait_status(otp, OTPC_DP2STB_IRQ_ST); fall through
rk3308bs_active_dp2stb ==
  /\ pc = "rk3308bs_active_dp2stb"
  /\ \E r \in rk3308bs_poll_results(hw, OTPC_DP2STB_IRQ_ST) :
       /\ hw' = rk3308bs_otp_wait_status(hw, OTPC_DP2STB_IRQ_ST, r)
       /\ log' = log \o rk3308bs_wait_events(OTPC_DP2STB_IRQ_ST, r)
       /\ ret' = r
       /\ pc' = IF r < 0 THEN "rk3308bs_opt_pclk_phy" ELSE "rk3308bs_active_standby"
  /\ UNCHANGED << dev, poll, data, calls, offset, bytes, val, bufpos, clk_en, rst, loc,
                  sret >>

\* case OTPC_STANDBY: writel(OTPC_ACTIVE, ...)
rk3308bs_active_standby ==
  /\ pc = "rk3308bs_active_standby"
  /\ hw' = HwWriteMode(hw, OTPC_ACTIVE)
  /\ log' = Append(log, Ev("writel", "OTPC_MODE_CTRL", OTPC_ACTIVE, 0))
  /\ pc' = "rk3308bs_active_stb2act"
  /\ UNCHANGED << dev, poll, data, calls, offset, bytes, val, bufpos, ret, clk_en, rst,
                  loc, sret >>

\* ret = rk3308bs_otp_wait_status(otp, OTPC_STB2ACT_IRQ_ST); break
rk3308bs_active_stb2act ==
  /\ pc = "rk3308bs_active_stb2act"
  /\ \E r \in rk3308bs_poll_results(hw, OTPC_STB2ACT_IRQ_ST) :
       /\ hw' = rk3308bs_otp_wait_status(hw, OTPC_STB2ACT_IRQ_ST, r)
       /\ log' = log \o rk3308bs_wait_events(OTPC_STB2ACT_IRQ_ST, r)
       /\ ret' = r
       /\ pc' = IF r < 0 THEN "rk3308bs_opt_pclk_phy" ELSE "rk3308bs_window"
  /\ UNCHANGED << dev, poll, data, calls, offset, bytes, val, bufpos, clk_en, rst, loc,
                  sret >>

(* ---- rk3308bs_otp_read: the word window and the read loop ------------- *)
\* a slip: the window always ends one word past the word of the last byte + 1
rk3308bs_addr_end_extra(o, n) == ((o + n) \div RK3308BS_NBYTES) + 1

rk3308bs_addr_start(o) == rounddown(o, RK3308BS_NBYTES) \div RK3308BS_NBYTES
rk3308bs_addr_end(o, n) == roundup(o + n, RK3308BS_NBYTES) \div RK3308BS_NBYTES
\* a slip: the in-window offset of the requested start is dropped
rk3308bs_addr_offset_zero(o) == 0

rk3308bs_addr_offset(o) == o % RK3308BS_NBYTES

\* addr_start = ...; addr_end = ...; addr_offset = ...; addr_len = ...;
\* addr_start += RK3308BS_NO_SECURE_OFFSET
rk3308bs_window ==
  /\ pc = "rk3308bs_window"
  /\ loc' = [loc EXCEPT
       !.addr_start = rk3308bs_addr_start(offset) + RK3308BS_NO_SECURE_OFFSET,
       !.addr_offset = rk3308bs_addr_offset(offset),
       !.addr_len = rk3308bs_addr_end(offset, bytes) - rk3308bs_addr_start(offset),
       !.i = 0]
  /\ pc' = "rk3308bs_kzalloc"
  /\ UNCHANGED << dev, poll, data, calls, offset, bytes, val, bufpos, ret, clk_en, rst,
                  hw, sret, log >>

\* buf = kzalloc(addr_len * RK3308BS_NBYTES); if (!buf) goto read_end
\* (a request of zero bytes gets the non-null ZERO_SIZE_PTR and cannot fail)
rk3308bs_kzalloc ==
  /\ pc = "rk3308bs_kzalloc"
  /\ \/ /\ loc' = [loc EXCEPT
             !.buf = [k \in 1..(loc.addr_len * RK3308BS_NBYTES) |-> 0]]
        /\ log' = Append(log, Ev("kzalloc", "buf", 0, loc.addr_len * RK3308BS_NBYTES))
        /\ pc' = "rk3308bs_loop"
        /\ UNCHANGED ret
     \/ /\ loc.addr_len > 0
        /\ ret' = -ENOMEM
        /\ log' = Append(log, Ev("kzalloc", "buf", -ENOMEM, loc.addr_len * RK3308BS_NBYTES))
        /\ pc' = "rk3308bs_read_end"
        /\ UNCHANGED loc
  /\ UNCHANGED << dev, poll, data, calls, offset, bytes, val, bufpos, clk_en, rst, hw,
                  sret >>

\* while (addr_len--) { writel(OTPC_TRANS_NUM, ...); writel(addr_start++, ...);
\*                      writel(OTPC_READ_ACCESS, OTPC_MODE_CTRL);
\* (addr_len is not read again after the loop, so its wrap at 0 is left out)
rk3308bs_loop ==
  /\ pc = "rk3308bs_loop"
  /\ IF loc.addr_len = 0
     THEN /\ pc' = "rk3308bs_copy"
          /\ UNCHANGED << hw, loc, log >>
     ELSE /\ loc' = [loc EXCEPT !.addr_len = @ - 1, !.addr_start = @ + 1]
          /\ hw' = HwWriteMode([hw EXCEPT !.TRANS_NUM = OTPC_TRANS_NUM,
                                          !.ACCESS_ADDR = loc.addr_start],
                               OTPC_READ_ACCESS)
          /\ log' = log \o
               << Ev("writel", "OTPC_REPR_RD_TRANS_NUM", OTPC_TRANS_NUM, 0),
                  Ev("writel", "OTPC_ACCESS_ADDR", loc.addr_start, 0),
                  Ev("writel", "OTPC_MODE_CTRL", OTPC_READ_ACCESS, 0) >>
          /\ pc' = "rk3308bs_wait_rd"
  /\ UNCHANGED << dev, poll, data, calls, offset, bytes, val, bufpos, ret, clk_en, rst,
                  sret >>

\* a slip: a read-done timeout leaves the loop with break, so the copy runs
rk3308bs_wait_rd_break ==
  /\ pc = "rk3308bs_wait_rd"
  /\ \E r \in rk3308bs_poll_results(hw, OTPC_RDM_IRQ_ST) :
       /\ hw' = rk3308bs_otp_wait_status(hw, OTPC_RDM_IRQ_ST, r)
       /\ log' = log \o rk3308bs_wait_events(OTPC_RDM_IRQ_ST, r)
       /\ ret' = r
       /\ pc' = IF r < 0 THEN "rk3308bs_copy" ELSE "rk3308bs_rd_data"
  /\ UNCHANGED << dev, poll, data, calls, offset, bytes, val, bufpos, clk_en, rst, loc,
                  sret >>

\* ret = rk3308bs_otp_wait_status(otp, OTPC_RDM_IRQ_ST); if (ret < 0) goto read_end
rk3308bs_wait_rd ==
  /\ pc = "rk3308bs_wait_rd"
  /\ \E r \in rk3308bs_poll_results(hw, OTPC_RDM_IRQ_ST) :
       /\ hw' = rk3308bs_otp_wait_status(hw, OTPC_RDM_IRQ_ST, r)
       /\ log' = log \o rk3308bs_wait_events(OTPC_RDM_IRQ_ST, r)
       /\ ret' = r
       /\ pc' = IF r < 0 THEN "rk3308bs_read_end" ELSE "rk3308bs_rd_data"
  /\ UNCHANGED << dev, poll, data, calls, offset, bytes, val, bufpos, clk_en, rst, loc,
                  sret >>

\* out_value = readl(OTPC_RD_DATA); memcpy(&buf[i], &out_value, 4); i += 4
rk3308bs_rd_data ==
  /\ pc = "rk3308bs_rd_data"
  /\ loc' = [loc EXCEPT
       !.buf = memcpy(loc.buf, loc.i, WordBytes(hw.RD_DATA), 0, RK3308BS_NBYTES),
       !.i = @ + RK3308BS_NBYTES]
  /\ log' = Append(log, Ev("readl", "OTPC_RD_DATA", hw.RD_DATA, 0))
  /\ pc' = "rk3308bs_loop"
  /\ UNCHANGED << dev, poll, data, calls, offset, bytes, val, bufpos, ret, clk_en, rst,
                  hw, sret >>

\* memcpy(val, buf + addr_offset, bytes)
rk3308bs_copy ==
  /\ pc = "rk3308bs_copy"
  /\ val' = memcpy(val, 0, loc.buf, loc.addr_offset, bytes)
  /\ log' = Append(log, Ev("memcpy", "val", loc.addr_offset, bytes))
  /\ pc' = "rk3308bs_read_end"
  /\ UNCHANGED << dev, poll, data, calls, offset, bytes, bufpos, ret, clk_en, rst, hw,
                  loc, sret >>

(* ---- rk3308bs_otp_standby --------------------------------------------- *)
\* the case label the switch of rk3308bs_otp_standby jumps to
rk3308bs_standby_case(mode) ==
  CASE mode = OTPC_ACTIVE -> "rk3308bs_standby_active"
    [] mode = OTPC_STANDBY -> "rk3308bs_standby_standby"
    [] OTHER -> "rk3308bs_opt_pclk_phy"

\* a slip: ret = rk3308bs_otp_standby(otp) where it reports a failure
rk3308bs_read_end_ret_kept(r, s) == IF s # 0 THEN s ELSE r

\* ret of rk3308bs_otp_read after the statement rk3308bs_otp_standby(otp);
\* whose result s is dropped
rk3308bs_read_end_ret(r, s) == r

\* read_end: kfree(buf); rk3308bs_otp_standby(otp):
\* mode = readl(otp->base + OTPC_MODE_CTRL); switch (mode)
rk3308bs_read_end ==
  /\ pc = "rk3308bs_read_end"
  /\ loc' = [loc EXCEPT !.buf = << >>]
  /\ log' = log \o << Ev("kfree", "buf", 0, 0),
                      Ev("readl", "OTPC_MODE_CTRL", hw.MODE_CTRL, 0) >>
  /\ pc' = rk3308bs_standby_case(hw.MODE_CTRL)
  /\ sret' = 0
  /\ ret' = IF rk3308bs_standby_case(hw.MODE_CTRL) = "rk3308bs_opt_pclk_phy"
            THEN rk3308bs_read_end_ret(ret, 0) ELSE ret
  /\ UNCHANGED << dev, poll, data, calls, offset, bytes, val, bufpos, clk_en, rst, hw >>

\* case OTPC_ACTIVE: writel(OTPC_STANDBY, ...)
rk3308bs_standby_active ==
  /\ pc = "rk3308bs_standby_active"
  /\ hw' = HwWriteMode(hw, OTPC_STANDBY)
  /\ log' = Append(log, Ev("writel", "OTPC_MODE_CTRL", OTPC_STANDBY, 0))
  /\ pc' = "rk3308bs_standby_act2stb"
  /\ UNCHANGED << dev, poll, data, calls, offset, bytes, val, bufpos, ret, clk_en, rst,
                  loc, sret >>

\* ret = rk3308bs_otp_wait_status(otp, OTPC_ACT2STB_IRQ_ST); fall through
rk3308bs_standby_act2stb ==
  /\ pc = "rk3308bs_standby_act2stb"
  /\ \E r \in rk3308bs_poll_results(hw, OTPC_ACT2STB_IRQ_ST) :
       /\ hw' = rk3308bs_otp_wait_status(hw, OTPC_ACT2STB_IRQ_ST, r)
       /\ log' = log \o rk3308bs_wait_events(OTPC_ACT2STB_IRQ_ST, r)
       /\ sret' = r
       /\ IF r < 0
          THEN /\ pc' = "rk3308bs_opt_pclk_phy"
               /\ ret' = rk3308bs_read_end_ret(ret, r)
          ELSE /\ pc' = "rk3308bs_standby_standby"
               /\ UNCHANGED ret
  /\ UNCHANGED << dev, poll, data, calls, offset, bytes, val, bufpos, clk_en, rst, loc >>

\* case OTPC_STANDBY: writel(OTPC_DEEP_STANDBY, ...)
rk3308bs_standby_standby ==
  /\ pc = "rk3308bs_standby_standby"
  /\ hw' = HwWriteMode(hw, OTPC_DEEP_STANDBY)
  /\ log' = Append(log, Ev("writel", "OTPC_MODE_CTRL", OTPC_DEEP_STANDBY, 0))
  /\ pc' = "rk3308bs_standby_stb2dp"
  /\ UNCHANGED << dev, poll, data, calls, offset, bytes, val, bufpos, ret, clk_en, rst,
                  loc, sret >>

\* ret = rk3308bs_otp_wait_status(otp, OTPC_STB2DP_IRQ_ST); break; return ret
rk3308bs_standby_stb2dp ==
  /\ pc = "rk3308bs_standby_stb2dp"
  /\ \E r \in rk3308bs_poll_results(hw, OTPC_STB2DP_IRQ_ST) :
       /\ hw' = rk3308bs_otp_wait_status(hw, OTPC_STB2DP_IRQ_ST, r)
       /\ log' = log \o rk3308bs_wait_events(OTPC_STB2DP_IRQ_ST, r)
       /\ sret' = r
       /\ ret' = rk3308bs_read_end_ret(ret, r)
       /\ pc' = "rk3308bs_opt_pclk_phy"
  /\ UNCHANGED << dev, poll, data, calls, offset, bytes, val, bufpos, clk_en, rst, loc >>

(* ---- rk3308bs_otp_read: release --------------------------------------- *)
rk3308bs_opt_pclk_phy ==
  /\ pc = "rk3308bs_opt_pclk_phy"
  /\ ClkDisableUnprepare("pclk_phy", "rk3308bs_opt_pclk")

rk3308bs_opt_pclk ==
  /\ pc = "rk3308bs_opt_pclk"
  /\ ClkDisableUnprepare("pclk", "rk3308bs_otp_clk")

rk3308bs_otp_clk ==
  /\ pc = "rk3308bs_otp_clk"
  /\ ClkDisableUnprepare("clk", "return")

rk3308bs_otp_read ==
  \/ rk3308bs_check \/ rk3308bs_clk \/ rk3308bs_pclk \/ rk3308bs_pclk_phy
  \/ rk3308bs_reset \/ rk3308bs_deassert
  \/ rk3308bs_active \/ rk3308bs_active_deep \/ rk3308bs_active_dp2stb
  \/ rk3308bs_active_standby \/ rk3308bs_active_stb2act
  \/ rk3308bs_window \/ rk3308bs_kzalloc \/ rk3308bs_loop \/ rk3308bs_wait_rd
  \/ rk3308bs_rd_data \/ rk3308bs_copy
  \/ rk3308bs_read_end \/ rk3308bs_standby_active \/ rk3308bs_standby_act2stb
  \/ rk3308bs_standby_standby \/ rk3308bs_standby_stb2dp
  \/ rk3308bs_opt_pclk_phy \/ rk3308bs_opt_pclk \/ rk3308bs_otp_clk

(* ---- px30_otp_wait_status -------------------------------------------- *)
\* the results the poll of OTPC_INT_STATUS for flag can have
px30_poll_results(h, flag) ==
  {r \in {0, -ETIMEDOUT} :
     \/ r = 0 /\ flag \in (h.INT_STATUS \cup h.pending)
     \/ r = -ETIMEDOUT /\ flag \notin h.INT_STATUS}

\* the bits left in OTPC_INT_STATUS by writel(flag, otp->base + OTPC_INT_STATUS)
px30_clean_int_status(st, flag) == st \ {flag}

\* the controller after px30_otp_wait_status(otp, flag) returned r
px30_otp_wait_status(h, flag, r) ==
  IF r = 0
  THEN LET seen == IF flag \in h.INT_STATUS THEN h ELSE HwComplete(h, flag)
       IN  [seen EXCEPT !.INT_STATUS = px30_clean_int_status(seen.INT_STATUS, flag)]
  ELSE h

\* the events of px30_otp_wait_status(otp, flag) returning r
px30_wait_events(flag, r) ==
  IF r = 0
  THEN << Ev("poll", "OTPC_INT_STATUS", flag, 0),
          Ev("writel", "OTPC_INT_STATUS", flag, 0) >>
  ELSE << Ev("poll", "OTPC_INT_STATUS", flag, r) >>

(* ---- px30_otp_read ---------------------------------------------------- *)
px30_clk ==
  /\ pc = "px30_clk"
  /\ ClkPrepareEnable("clk", "px30_pclk", "return")

px30_pclk ==
  /\ pc = "px30_pclk"
  /\ ClkPrepareEnable("pclk", "px30_pclk_phy", "px30_otp_clk")

px30_pclk_phy ==
  /\ pc = "px30_pclk_phy"
  /\ ClkPrepareEnable("pclk_phy", "px30_reset", "px30_opt_pclk")

px30_reset ==
  /\ pc = "px30_reset"
  /\ ResetAssert("px30_deassert", "px30_opt_pclk_phy")

px30_deassert ==
  /\ pc = "px30_deassert"
  /\ ResetDeassert("px30_ecc_enable", "px30_opt_pclk_phy")

\* px30_otp_ecc_enable(otp, false): the SBPI command writes
\* (SBPI_DAP_CMD_WRF and SBPI_DAP_REG_ECC have no bit in common, so | is +)
px30_otp_ecc_enable ==
  /\ pc = "px30_ecc_enable"
  /\ hw' = [hw EXCEPT !.pending = @ \cup {OTPC_SBPI_DONE}]
  /\ log' = log \o
       << Ev("writel", "OTPC_SBPI_CTRL", SBPI_DAP_ADDR * 256, SBPI_DAP_ADDR_MASK),
          Ev("writel", "OTPC_SBPI_CMD_VALID_PRE", 1, SBPI_CMD_VALID_MASK),
          Ev("writel", "OTPC_SBPI_CMD0_OFFSET", SBPI_DAP_CMD_WRF + SBPI_DAP_REG_ECC, 0),
          Ev("writel", "OTPC_SBPI_CMD1_OFFSET", SBPI_ECC_DISABLE, 0),
          Ev("writel", "OTPC_SBPI_CTRL", SBPI_ENABLE, SBPI_ENABLE_MASK) >>
  /\ pc' = "px30_ecc_wait"
  /\ UNCHANGED << dev, poll, data, calls, offset, bytes, val, bufpos, ret, clk_en, rst,
                  loc, sret >>

\* a slip: the result of the SBPI-done wait is not looked at
px30_ecc_wait_ignored ==
  /\ pc = "px30_ecc_wait"
  /\ \E r \in px30_poll_results(hw, OTPC_SBPI_DONE) :
       /\ hw' = px30_otp_wait_status(hw, OTPC_SBPI_DONE, r)
       /\ log' = log \o px30_wait_events(OTPC_SBPI_DONE, r)
       /\ ret' = r
       /\ pc' = "px30_use_user"
  /\ UNCHANGED << dev, poll, data, calls, offset, bytes, val, bufpos, clk_en, rst, loc,
                  sret >>

\* ret = px30_otp_wait_status(otp, OTPC_SBPI_DONE); if (ret < 0) goto opt_pclk_phy
px30_ecc_wait ==
  /\ pc = "px30_ecc_wait"
  /\ \E r \in px30_poll_results(hw, OTPC_SBPI_DONE) :
       /\ hw' = px30_otp_wait_status(hw, OTPC_SBPI_DONE, r)
       /\ log' = log \o px30_wait_events(OTPC_SBPI_DONE, r)
       /\ ret' = r
       /\ pc' = IF r < 0 THEN "px30_opt_pclk_phy" ELSE "px30_use_user"
  /\ UNCHANGED << dev, poll, data, calls, offset, bytes, val, bufpos, clk_en, rst, loc,
                  sret >>

\* writel(OTPC_USE_USER | OTPC_USE_USER_MASK, OTPC_USER_CTRL); udelay(5)
px30_use_user ==
  /\ pc = "px30_use_user"
  /\ hw' = [hw EXCEPT !.USER_CTRL = OTPC_USE_USER]
  /\ log' = Append(log, Ev("writel", "OTPC_USER_CTRL", OTPC_USE_USER, OTPC_USE_USER_MASK))
  /\ pc' = "px30_loop"
  /\ UNCHANGED << dev, poll, data, calls, offset, bytes, val, bufpos, ret, clk_en, rst,
                  loc, sret >>

\* a slip: the loop forgets to advance the offset
px30_loop_stuck ==
  /\ pc = "px30_loop"
  /\ IF bytes = 0
     THEN /\ pc' = "px30_read_end"
          /\ UNCHANGED << bytes, hw, log >>
     ELSE /\ bytes' = bytes - 1
          /\ hw' = [hw EXCEPT !.USER_ADDR = offset,
                              !.pending = @ \cup {OTPC_USER_DONE}]
          /\ log' = log \o
               << Ev("writel", "OTPC_USER_ADDR", offset, OTPC_USER_ADDR_MASK),
                  Ev("writel", "OTPC_USER_ENABLE", OTPC_USER_FSM_ENABLE,
                     OTPC_USER_FSM_ENABLE_MASK) >>
          /\ pc' = "px30_wait_user"
  /\ UNCHANGED << dev, poll, data, calls, offset, val, bufpos, ret, clk_en, rst, loc, sret >>

\* while (bytes--) { writel(offset++ | OTPC_USER_ADDR_MASK, OTPC_USER_ADDR);
\*                   writel(OTPC_USER_FSM_ENABLE | ..., OTPC_USER_ENABLE);
\* (bytes is not read again after the loop, so its wrap at 0 is left out)
px30_loop ==
  /\ pc = "px30_loop"
  /\ IF bytes = 0
     THEN /\ pc' = "px30_read_end"
          /\ UNCHANGED << offset, bytes, hw, log >>
     ELSE /\ bytes' = bytes - 1
          /\ offset' = offset + 1
          /\ hw' = [hw EXCEPT !.USER_ADDR = offset,
                              !.pending = @ \cup {OTPC_USER_DONE}]
          /\ log' = log \o
               << Ev("writel", "OTPC_USER_ADDR", offset, OTPC_USER_ADDR_MASK),
                  Ev("writel", "OTPC_USER_ENABLE", OTPC_USER_FSM_ENABLE,
                     OTPC_USER_FSM_ENABLE_MASK) >>
          /\ pc' = "px30_wait_user"
  /\ UNCHANGED << dev, poll, data, calls, val, bufpos, ret, clk_en, rst, loc, sret >>

\* a slip: the byte is read even when the user-done wait timed out
px30_wait_user_continue ==
  /\ pc = "px30_wait_user"
  /\ \E r \in px30_poll_results(hw, OTPC_USER_DONE) :
       /\ hw' = px30_otp_wait_status(hw, OTPC_USER_DONE, r)
       /\ log' = log \o px30_wait_events(OTPC_USER_DONE, r)
       /\ ret' = r
       /\ pc' = "px30_readb"
  /\ UNCHANGED << dev, poll, data, calls, offset, bytes, val, bufpos, clk_en, rst, loc,
                  sret >>

\* ret = px30_otp_wait_status(otp, OTPC_USER_DONE); if (ret < 0) goto read_end
px30_wait_user ==
  /\ pc = "px30_wait_user"
  /\ \E r \in px30_poll_results(hw, OTPC_USER_DONE) :
       /\ hw' = px30_otp_wait_status(hw, OTPC_USER_DONE, r)
       /\ log' = log \o px30_wait_events(OTPC_USER_DONE, r)
       /\ ret' = r
       /\ pc' = IF r < 0 THEN "px30_read_end" ELSE "px30_readb"
  /\ UNCHANGED << dev, poll, data, calls, offset, bytes, val, bufpos, clk_en, rst, loc,
                  sret >>

\* *buf++ = readb(otp->base + OTPC_USER_Q)
px30_readb ==
  /\ pc = "px30_readb"
  /\ val' = [val EXCEPT ![bufpos + 1] = hw.USER_Q % 256]
  /\ bufpos' = bufpos + 1
  /\ log' = Append(log, Ev("readb", "OTPC_USER_Q", hw.USER_Q % 256, 0))
  /\ pc' = "px30_loop"
  /\ UNCHANGED << dev, poll, data, calls, offset, bytes, ret, clk_en, rst, hw, loc, sret >>

\* a slip: read_end releases the clocks without leaving user mode
px30_read_end_kept ==
  /\ pc = "px30_read_end"
  /\ pc' = "px30_opt_pclk_phy"
  /\ UNCHANGED << dev, poll, data, calls, offset, bytes, val, bufpos, ret, clk_en, rst,
                  hw, loc, sret, log >>

\* read_end: writel(0x0 | OTPC_USE_USER_MASK, OTPC_USER_CTRL)
px30_read_end ==
  /\ pc = "px30_read_end"
  /\ hw' = [hw EXCEPT !.USER_CTRL = 0]
  /\ log' = Append(log, Ev("writel", "OTPC_USER_CTRL", 0, OTPC_USE_USER_MASK))
  /\ pc' = "px30_opt_pclk_phy"
  /\ UNCHANGED << dev, poll, data, calls, offset, bytes, val, bufpos, ret, clk_en, rst,
                  loc, sret >>

px30_opt_pclk_phy ==
  /\ pc = "px30_opt_pclk_phy"
  /\ ClkDisableUnprepare("pclk_phy", "px30_opt_pclk")

px30_opt_pclk ==
  /\ pc = "px30_opt_pclk"
  /\ ClkDisableUnprepare("pclk", "px30_otp_clk")

px30_otp_clk ==
  /\ pc = "px30_otp_clk"
  /\ ClkDisableUnprepare("clk", "return")

px30_otp_read ==
  \/ px30_clk \/ px30_pclk \/ px30_pclk_phy \/ px30_reset \/ px30_deassert
  \/ px30_otp_ecc_enable \/ px30_ecc_wait \/ px30_use_user \/ px30_loop
  \/ px30_wait_user \/ px30_readb \/ px30_read_end
  \/ px30_opt_pclk_phy \/ px30_opt_pclk \/ px30_otp_clk

(* ---- the hardware finishing an operation after its poll gave up ------- *)
HwLate ==
  /\ AllClocksOn
  /\ \E f \in hw.pending : hw' = HwComplete(hw, f)
  /\ UNCHANGED << dev, poll, data, pc, calls, offset, bytes, val, bufpos, ret, clk_en,
                  rst, loc, sret, log >>

(* ---- specification ---------------------------------------------------- *)
Next ==
  \/ \E o \in Offsets, n \in Lengths : rockchip_otp_read(o, n)
  \/ rk3308bs_otp_read
  \/ px30_otp_read
  \/ HwLate
  \/ Return

Spec == Init /\ [][Next]_vars

(* ======================================================================= *)
(* Properties                                                              *)
(* ======================================================================= *)
IsB == data.reg_read = "rk3308bs_otp_read"
IsA == data.reg_read = "px30_otp_read"
InCall == Len(log) > 0
CallOffset == log[1].v          \* the offset the running call was given
CallBytes == log[1].m           \* the length the running call was given
Returned == pc = "return"

\* positions of the log holding an event of this kind
At(op, reg) == {k \in 1..Len(log) : log[k].op = op /\ log[k].reg = reg}
Polls(flag, r) == {k \in At("poll", "OTPC_IRQ_ST") : log[k].v = flag /\ log[k].m = r}
ModeWrites(v) == {k \in At("writel", "OTPC_MODE_CTRL") : log[k].v = v}
IsRegAccess(e) == e.op \in {"readl", "writel", "readb", "poll"}

\* the k-th smallest element of a set of positions
RECURSIVE Sorted(_)
Sorted(S) ==
  IF S = {} THEN << >>
  ELSE LET m == CHOOSE x \in S : \A y \in S : x <= y
       IN  << m >> \o Sorted(S \ {m})

\* the values of the events at a set of positions, in program order
Values(S) == [k \in 1..Cardinality(S) |-> log[Sorted(S)[k]].v]

\* word addresses written to OTPC_ACCESS_ADDR, and words read from OTPC_RD_DATA
AccessAddrs == Values(At("writel", "OTPC_ACCESS_ADDR"))
WordsRead == Values(At("readl", "OTPC_RD_DATA"))

\* the value of the first readl of OTPC_MODE_CTRL: the mode rk3308bs_otp_active saw
ModeReads == Values(At("readl", "OTPC_MODE_CTRL"))

ValUntouched == \A k \in 1..Len(val) : val[k] = Untouched

Min(a, b) == IF a < b THEN a ELSE b

(* ---- C1 --------------------------------------------------------------- *)
\* C1 (as claimed): in variant B, whenever the release of the clocks starts
\* (the three clocks were enabled and the first of them is about to be
\* disabled), the mode-control register holds deep-standby.
C1_DeepStandbyAtRelease ==
  (IsB /\ pc = "rk3308bs_opt_pclk_phy") => hw.MODE_CTRL = OTPC_DEEP_STANDBY

(* ---- C2 --------------------------------------------------------------- *)
\* C2 (as claimed): in variant B, a read-access transition is written to the
\* mode-control register only in a call that reached active mode: it read
\* active at entry of rk3308bs_otp_active, or its stb2act wait matched.
C2_ActiveBeforeReadAccess ==
  (IsB /\ ModeWrites(OTPC_READ_ACCESS) # {}) =>
     \/ ModeReads[1] = OTPC_ACTIVE
     \/ Polls(OTPC_STB2ACT_IRQ_ST, 0) # {}

(* ---- C3 --------------------------------------------------------------- *)
\* C3 (as claimed): in variant B, once a word read was issued, by the time the
\* release of the clocks starts the engine has written standby and waited for
\* act2stb, then written deep-standby and waited for stb2dp, all after the
\* last read-access transition.
C3_WalkDownAfterLoop ==
  (IsB /\ pc = "rk3308bs_opt_pclk_phy" /\ ModeWrites(OTPC_READ_ACCESS) # {}) =>
     \E a \in ModeWrites(OTPC_STANDBY), b \in ModeWrites(OTPC_DEEP_STANDBY) :
        /\ \A k \in ModeWrites(OTPC_READ_ACCESS) : k < a
        /\ a < b
        /\ \E w \in At("poll", "OTPC_IRQ_ST") :
              a < w /\ w < b /\ log[w].v = OTPC_ACT2STB_IRQ_ST
        /\ \E w \in At("poll", "OTPC_IRQ_ST") :
              b < w /\ log[w].v = OTPC_STB2DP_IRQ_ST

(* ---- C4 --------------------------------------------------------------- *)
\* C4: in both variants, whenever the step just taken by a read call was a
\* register access (readl, writel, readb or a status poll), all three clocks
\* are enabled: no access precedes the third successful enable or follows the
\* first disable.
C4_RegAccessOnlyClocked ==
  (InCall /\ IsRegAccess(log[Len(log)])) => AllClocksOn

\* a variant A call that accessed registers, lost a user-done wait and returned
C4_Witness ==
  /\ IsA /\ Returned /\ ret = -ETIMEDOUT
  /\ At("readb", "OTPC_USER_Q") # {}
  /\ \A c \in ClockSet : At("disable", c) # {}

(* ---- C5 --------------------------------------------------------------- *)
\* C5: when a read call of either variant returns, each clock whose enable
\* succeeded has been disabled exactly once, each clock whose enable failed or
\* was not attempted has never been disabled, no disable hit a clock that was
\* off, and no clock is left enabled.
C5_ClocksPaired ==
  Returned =>
     \A c \in ClockSet :
        /\ Cardinality(At("disable", c))
             = Cardinality({k \in At("enable", c) : log[k].v = 0})
        /\ Cardinality(At("enable", c)) <= 1
        /\ \A k \in At("disable", c) : log[k].v = 1
        /\ clk_en[c] = 0

\* the third enable failed: clk and pclk are unwound, pclk_phy is not touched
C5_Witness ==
  /\ Returned
  /\ \E k \in At("enable", "pclk_phy") : log[k].v < 0
  /\ At("disable", "clk") # {} /\ At("disable", "pclk") # {}
  /\ At("disable", "pclk_phy") = {}

(* ---- C6 --------------------------------------------------------------- *)
\* byte j (0-based) of the logical byte array made of the words the data
\* register returned to this call, the first of them being word first
LogicalByte(j, first) ==
  WordBytes(WordsRead[(j \div RK3308BS_NBYTES) - first + 1])[(j % RK3308BS_NBYTES) + 1]

\* C6: a variant B call with offset < size that returns success has written
\* exactly n = min(length, size - offset) bytes to the caller's buffer, and
\* byte k of them is byte offset + k of the logical byte array formed by the
\* words read from the data register in ascending word order.
C6_BytesAreSliceOfWords ==
  (IsB /\ Returned /\ ret = 0 /\ CallOffset < data.size) =>
     LET n == Min(CallBytes, data.size - CallOffset)
     IN  /\ Len(val) = CallBytes
         /\ \A k \in 1..Len(val) :
               IF k <= n
               THEN val[k] = LogicalByte(CallOffset + (k - 1),
                                         CallOffset \div RK3308BS_NBYTES)
               ELSE val[k] = Untouched

\* a successful read that starts inside a word and spans two words
C6_Witness ==
  /\ IsB /\ Returned /\ ret = 0
  /\ CallOffset % RK3308BS_NBYTES # 0
  /\ Len(WordsRead) = 2
  /\ CallBytes = 4
  /\ val[4] # Untouched

(* ---- C7 --------------------------------------------------------------- *)
\* C7 (as claimed): the variant B request offset = 0x7E, length = 4 has its
\* length clamped to 2 and issues two word read cycles, for the last two
\* aligned words of the region.
C7_TwoWordsAt7E ==
  (IsB /\ Returned /\ ret = 0 /\ CallOffset = 126 /\ CallBytes = 4) =>
     /\ bytes = 2
     /\ AccessAddrs = << RK3308BS_NO_SECURE_OFFSET + 30, RK3308BS_NO_SECURE_OFFSET + 31 >>

\* C7 (amended): the variant B request offset = 0x7E, length = 4 has its
\* length clamped to 2 and issues one word read cycle, for the last aligned
\* word of the region (word 31, hardware word address 224 + 31).
C7_OneWordAt7E ==
  (IsB /\ Returned /\ ret = 0 /\ CallOffset = 126 /\ CallBytes = 4) =>
     /\ bytes = 2
     /\ AccessAddrs = << RK3308BS_NO_SECURE_OFFSET + 31 >>
     /\ Len(WordsRead) = 1

C7_Witness ==
  IsB /\ Returned /\ ret = 0 /\ CallOffset = 126 /\ CallBytes = 4

(* ---- C8 --------------------------------------------------------------- *)
\* the call failed in the wake-up walk, the scratch allocation or a read-done wait
FailedInSteps2to4 ==
  \/ Polls(OTPC_DP2STB_IRQ_ST, -ETIMEDOUT) # {}
  \/ Polls(OTPC_STB2ACT_IRQ_ST, -ETIMEDOUT) # {}
  \/ Polls(OTPC_RDM_IRQ_ST, -ETIMEDOUT) # {}
  \/ \E k \in At("kzalloc", "buf") : log[k].v < 0

\* C8: a variant B call that failed in the wake-up walk, the scratch
\* allocation or a read-done wait returns with the caller's buffer unmodified
\* and no copy made, with no word read issued and no data register read after
\* the failure, and with the three clocks disabled.
C8_FailureLeavesBufferAlone ==
  (IsB /\ Returned /\ FailedInSteps2to4) =>
     /\ ValUntouched
     /\ At("memcpy", "val") = {}
     /\ \A f \in 1..Len(log) :
           ( \/ (log[f].op = "poll" /\ log[f].m < 0
                 /\ log[f].v \in {OTPC_DP2STB_IRQ_ST, OTPC_STB2ACT_IRQ_ST, OTPC_RDM_IRQ_ST})
             \/ (log[f].op = "kzalloc" /\ log[f].v < 0) ) =>
           \A k \in (f + 1)..Len(log) :
              /\ log[k].reg \notin {"OTPC_ACCESS_ADDR", "OTPC_RD_DATA",
                                    "OTPC_REPR_RD_TRANS_NUM"}
              /\ ~(log[k].reg = "OTPC_MODE_CTRL" /\ log[k].op = "writel"
                   /\ log[k].v = OTPC_READ_ACCESS)
     /\ \A c \in ClockSet : At("disable", c) # {} /\ clk_en[c] = 0

\* the second word's read-done wait timed out after the first word was read
C8_Witness ==
  /\ IsB /\ Returned /\ ret = -ETIMEDOUT
  /\ Len(WordsRead) = 1
  /\ Polls(OTPC_RDM_IRQ_ST, -ETIMEDOUT) # {}
  /\ Len(val) > 0

(* ---- C9 --------------------------------------------------------------- *)
\* positions of the failures of steps 2-4 in the log
Step2to4Failures ==
  {k \in 1..Len(log) :
     \/ (log[k].op = "poll" /\ log[k].m < 0
         /\ log[k].v \in {OTPC_DP2STB_IRQ_ST, OTPC_STB2ACT_IRQ_ST, OTPC_RDM_IRQ_ST})
     \/ (log[k].op = "kzalloc" /\ log[k].v < 0)}

\* the error code of the failure at position k
FailureCode(k) == IF log[k].op = "poll" THEN log[k].m ELSE log[k].v

\* C9: a variant B call that entered the wake-up walk returns the error of
\* the first failure of steps 2-4, and returns success with the bytes copied
\* when those steps had no failure, whatever the waits of the walk-down did.
C9_FirstErrorOrSuccess ==
  (IsB /\ Returned /\ ModeReads # << >>) =>
     IF Step2to4Failures = {}
     THEN ret = 0 /\ At("memcpy", "val") # {}
     ELSE ret = FailureCode(Sorted(Step2to4Failures)[1])

\* a successful read whose walk-down timed out
C9_Witness ==
  /\ IsB /\ Returned /\ ret = 0
  /\ At("memcpy", "val") # {}
  /\ sret = -ETIMEDOUT

(* ---- C10 -------------------------------------------------------------- *)
\* C10: a variant B call with offset >= size returns -ENOMEM having enabled
\* no clock, pulsed no reset, accessed no register and written no byte of the
\* caller's buffer; a variant B call with offset < size goes on to enable the
\* first clock, whatever its length.
C10_OutOfRangeFirst ==
  (IsB /\ InCall /\ pc # "rk3308bs_check") =>
     IF CallOffset >= data.size
     THEN /\ Returned \/ pc = "idle"
          /\ ret = -ENOMEM
          /\ Len(log) = 1
          /\ ValUntouched
          /\ \A c \in ClockSet : clk_en[c] = 0
     ELSE \/ pc = "rk3308bs_clk"
          \/ /\ Len(log) >= 2
             /\ log[2].op = "enable" /\ log[2].reg = "clk"

\* a request at offset = size was rejected
C10_Witness ==
  /\ IsB /\ Returned /\ CallOffset = data.size /\ CallBytes > 0
  /\ ret = -ENOMEM

(* ---- C11 -------------------------------------------------------------- *)
StatusRegs == {"OTPC_IRQ_ST", "OTPC_INT_STATUS"}

\* the set bits of a status register of the controller h
StatusBits(h, reg) == IF reg = "OTPC_IRQ_ST" THEN h.IRQ_ST ELSE h.INT_STATUS

\* C11: every step of a status wait of either poller ends in one of two ways:
\* it matched and wrote exactly the tested mask back to the register it
\* polled, which clears the tested bit and leaves every other bit of both
\* status registers as it was; or it timed out and wrote nothing, leaving both
\* status registers as they were.
C11_WaitClearsOnlyTested ==
  [][ (Len(log') > Len(log) /\ log'[Len(log')].reg \in StatusRegs) =>
        LET e == log'[Len(log')]
            p == log'[Len(log') - 1]
        IN  IF e.op = "writel"
            THEN /\ p.op = "poll" /\ p.reg = e.reg /\ p.v = e.v /\ p.m = 0
                 /\ Len(log') = Len(log) + 2
                 /\ \A reg \in StatusRegs :
                       StatusBits(hw', reg) =
                         IF reg = e.reg THEN StatusBits(hw, reg) \ {e.v}
                                        ELSE StatusBits(hw, reg)
            ELSE /\ e.op = "poll" /\ e.m = -ETIMEDOUT
                 /\ Len(log') = Len(log) + 1
                 /\ \A reg \in StatusRegs : StatusBits(hw', reg) = StatusBits(hw, reg)
    ]_vars

\* a wait matched and was acknowledged while another status bit stayed set
C11_Witness ==
  /\ IsB /\ InCall
  /\ log[Len(log)].op = "writel" /\ log[Len(log)].reg = "OTPC_IRQ_ST"
  /\ hw.IRQ_ST # {}

(* ---- C12 -------------------------------------------------------------- *)
\* positions of the status polls of variant A for flag that returned r
PollsA(flag, r) ==
  {k \in At("poll", "OTPC_INT_STATUS") : log[k].v = flag /\ log[k].m = r}

\* positions of the writes of v to the user-control register
UserCtrlWrites(v) == {k \in At("writel", "OTPC_USER_CTRL") : log[k].v = v}

\* positions of the write that launches the SBPI command
SbpiLaunches == {k \in At("writel", "OTPC_SBPI_CTRL") : log[k].v = SBPI_ENABLE}

\* C12: a variant A call for (offset, N) in which every clock, reset and status
\* wait succeeded issued exactly N read cycles: the k-th address write carries
\* offset+k with the address-enable mask and is followed, in this order, by
\* the FSM-enable pulse, the matched user-done wait with its acknowledge, and
\* one byte read whose value is at output position k; and the ECC-disable
\* command was sent exactly once, before the one write that enables user mode,
\* which precedes the first cycle.
C12_ByteCycles ==
  (IsA /\ Returned /\ ret = 0) =>
     LET A == Sorted(At("writel", "OTPC_USER_ADDR"))
         ecc == At("writel", "OTPC_SBPI_CMD1_OFFSET")
     IN  /\ Len(A) = CallBytes
         /\ Cardinality(At("readb", "OTPC_USER_Q")) = CallBytes
         /\ Cardinality(At("writel", "OTPC_USER_ENABLE")) = CallBytes
         /\ \A k \in 1..Len(A) :
               /\ log[A[k]].v = CallOffset + (k - 1)
               /\ log[A[k]].m = OTPC_USER_ADDR_MASK
               /\ log[A[k] + 1] = Ev("writel", "OTPC_USER_ENABLE",
                                     OTPC_USER_FSM_ENABLE, OTPC_USER_FSM_ENABLE_MASK)
               /\ log[A[k] + 2] = Ev("poll", "OTPC_INT_STATUS", OTPC_USER_DONE, 0)
               /\ log[A[k] + 3] = Ev("writel", "OTPC_INT_STATUS", OTPC_USER_DONE, 0)
               /\ log[A[k] + 4].op = "readb" /\ log[A[k] + 4].reg = "OTPC_USER_Q"
               /\ val[k] = log[A[k] + 4].v
         /\ Cardinality(ecc) = 1
         /\ Cardinality(SbpiLaunches) = 1
         /\ Cardinality(UserCtrlWrites(OTPC_USE_USER)) = 1
         /\ \A c \in ecc, s \in SbpiLaunches, u \in UserCtrlWrites(OTPC_USE_USER) :
               /\ log[c].v = SBPI_ECC_DISABLE
               /\ c < s /\ s < u
               /\ \A k \in 1..Len(A) : u < A[k]

\* a successful variant A call for the longest request, from a nonzero offset
C12_Witness ==
  /\ IsA /\ Returned /\ ret = 0
  /\ CallBytes = MaxLen /\ CallOffset = MaxOff
  /\ Cardinality(At("readb", "OTPC_USER_Q")) = MaxLen

(* ---- C13 -------------------------------------------------------------- *)
\* C13: in variant A the user-mode bit is clear whenever no call is between
\* its user-mode enable and its read_end; and a returned call that enabled
\* user mode cleared it exactly once, after every step of the byte loop (the
\* last of them a timed-out user-done wait if the loop was aborted) and before
\* the first clock was disabled, and returns the timeout error if a user-done
\* wait timed out and success otherwise.
C13_UserModeCleared ==
  /\ (IsA /\ pc \in {"idle", "return"}) => hw.USER_CTRL = 0
  /\ (IsA /\ Returned /\ UserCtrlWrites(OTPC_USE_USER) # {}) =>
        LET off == UserCtrlWrites(0)
            loopEv == At("writel", "OTPC_USER_ADDR") \cup At("writel", "OTPC_USER_ENABLE")
                      \cup At("poll", "OTPC_INT_STATUS") \cup At("writel", "OTPC_INT_STATUS")
                      \cup At("readb", "OTPC_USER_Q") \cup UserCtrlWrites(OTPC_USE_USER)
            dis == {k \in 1..Len(log) : log[k].op = "disable"}
        IN  /\ Cardinality(off) = 1
            /\ \A c \in off :
                  /\ log[c].m = OTPC_USE_USER_MASK
                  /\ \A k \in loopEv : k < c
                  /\ \A k \in dis : c < k
                  /\ PollsA(OTPC_USER_DONE, -ETIMEDOUT) # {} =>
                        log[c - 1] = Ev("poll", "OTPC_INT_STATUS", OTPC_USER_DONE, -ETIMEDOUT)
            /\ Cardinality(dis) = 3
            /\ ret = IF PollsA(OTPC_USER_DONE, -ETIMEDOUT) # {} THEN -ETIMEDOUT ELSE 0

\* a call whose loop was aborted by a user-done timeout after one byte, returned
C13_Witness ==
  /\ IsA /\ Returned /\ ret = -ETIMEDOUT
  /\ UserCtrlWrites(0) # {}
  /\ Cardinality(At("readb", "OTPC_USER_Q")) = 1
  /\ hw.USER_CTRL = 0

(* ---- C14 -------------------------------------------------------------- *)
\* C14: a variant A call whose SBPI-done wait timed out returns the timeout
\* error, never wrote the user-control, address or FSM-enable register, never
\* read the data register, left every byte of the output buffer untouched,
\* and has disabled all three clocks.
C14_SbpiTimeout ==
  (IsA /\ Returned /\ PollsA(OTPC_SBPI_DONE, -ETIMEDOUT) # {}) =>
     /\ ret = -ETIMEDOUT
     /\ At("writel", "OTPC_USER_CTRL") = {}
     /\ At("writel", "OTPC_USER_ADDR") = {}
     /\ At("writel", "OTPC_USER_ENABLE") = {}
     /\ At("readb", "OTPC_USER_Q") = {}
     /\ hw.USER_CTRL = 0
     /\ ValUntouched
     /\ \A c \in ClockSet : clk_en[c] = 0
     /\ \A c \in ClockSet :
           Cardinality({k \in 1..Len(log) : log[k].op = "disable" /\ log[k].reg = c}) = 1

\* a call asked for bytes, its SBPI-done wait timed out, and it returned
C14_Witness ==
  /\ IsA /\ Returned /\ CallBytes = MaxLen
  /\ PollsA(OTPC_SBPI_DONE, -ETIMEDOUT) # {}

(* ---- C15 -------------------------------------------------------------- *)
\* C15: in a variant A call whose user-done wait timed out after k bytes were
\* read, the timed-out wait belongs to the (k+1)-th address write, which is the
\* last one; output positions 1..k hold the k bytes read, positions k+1..N
\* are untouched; nothing but the user-mode clear and the clock releases
\* follows the timed-out wait; and the call returns the timeout error.
C15_UserDoneTimeout ==
  (IsA /\ Returned /\ PollsA(OTPC_USER_DONE, -ETIMEDOUT) # {}) =>
     LET A == Sorted(At("writel", "OTPC_USER_ADDR"))
         Q == Sorted(At("readb", "OTPC_USER_Q"))
         k == Len(Q)
     IN  /\ ret = -ETIMEDOUT
         /\ Cardinality(PollsA(OTPC_USER_DONE, -ETIMEDOUT)) = 1
         /\ Len(A) = k + 1 /\ k < CallBytes
         /\ \A j \in 1..Len(A) : log[A[j]].v = CallOffset + (j - 1)
         /\ \A t \in PollsA(OTPC_USER_DONE, -ETIMEDOUT) :
               /\ t = A[k + 1] + 2
               /\ \A j \in (t + 1)..Len(log) :
                     \/ log[j] = Ev("writel", "OTPC_USER_CTRL", 0, OTPC_USE_USER_MASK)
                     \/ log[j].op = "disable"
         /\ \A j \in 1..k : val[j] = log[Q[j]].v
         /\ \A j \in (k + 1)..CallBytes : val[j] = Untouched

\* the user-done wait of the third byte timed out: two bytes delivered, the
\* rest of the buffer as the caller left it
C15_Witness ==
  /\ IsA /\ Returned /\ CallBytes = MaxLen
  /\ PollsA(OTPC_USER_DONE, -ETIMEDOUT) # {}
  /\ Cardinality(At("readb", "OTPC_USER_Q")) = 2
  /\ val[2] # Untouched /\ val[3] = Untouched

(* ---- C16: a status poll followed time-unit by time-unit ---------------- *)
\* the status bits each engine waits for
px30_flags == {OTPC_SBPI_DONE, OTPC_USER_DONE}
rk3308bs_flags == {OTPC_RDM_IRQ_ST, OTPC_STB2ACT_IRQ_ST, OTPC_DP2STB_IRQ_ST,
                   OTPC_ACT2STB_IRQ_ST, OTPC_STB2DP_IRQ_ST}

\* a slip: the bound handed to the poll is one time-unit short
poll_timeout_short == OTPC_TIMEOUT - 1

\* the arguments both wait functions hand to readl_poll_timeout_atomic:
\* the delay between two reads and the total wait
poll_delay_us == 1
poll_timeout_us == OTPC_TIMEOUT

\* a wait for one of the engine's flags starts; the hardware may or may not
\* still have that flag to raise, and another status bit may be set
PollInit ==
  /\ \E compatible \in Compatibles, soc \in Socs :
       data = rockchip_otp_probe(compatible, soc)
  /\ pc = "idle" /\ calls = 0 /\ offset = 0 /\ bytes = 0 /\ val = << >>
  /\ bufpos = 0 /\ ret = 0 /\ rst = FALSE /\ loc = NoLocals /\ sret = 0
  /\ log = << >>
  /\ clk_en = [c \in ClockSet |-> 1]
  /\ dev = Attached(data)
  /\ \E f \in (IF IsA THEN px30_flags ELSE rk3308bs_flags) :
     \E P \in SUBSET {f},
        S \in {{}, (IF IsA THEN px30_flags ELSE rk3308bs_flags) \ {f}} :
       /\ hw = IF IsA THEN [HwInit EXCEPT !.pending = P, !.INT_STATUS = S]
                      ELSE [HwInit EXCEPT !.pending = P, !.IRQ_ST = S]
       /\ poll = [pc |-> "read",
                  reg |-> IF IsA THEN "OTPC_INT_STATUS" ELSE "OTPC_IRQ_ST",
                  flag |-> f, elapsed |-> 0, ret |-> 0, raised |-> FALSE]

\* one pass of the poll: read the status register; on a match leave the poll
\* and acknowledge the flag; once the bound is used up give up; else go on
poll_read ==
  /\ poll.pc = "read"
  /\ IF poll.flag \in StatusBits(hw, poll.reg)
     THEN /\ poll' = [poll EXCEPT !.pc = "done", !.ret = 0]
          /\ hw' = IF poll.reg = "OTPC_IRQ_ST"
                   THEN [hw EXCEPT !.IRQ_ST = rk3308bs_clean_int_status(@, poll.flag)]
                   ELSE [hw EXCEPT !.INT_STATUS = px30_clean_int_status(@, poll.flag)]
     ELSE /\ poll' = IF poll.elapsed >= poll_timeout_us
                     THEN [poll EXCEPT !.pc = "done", !.ret = -ETIMEDOUT]
                     ELSE [poll EXCEPT !.pc = "delay"]
          /\ UNCHANGED hw
  /\ UNCHANGED << data, pc, calls, offset, bytes, val, bufpos, ret, clk_en,
                  rst, loc, sret, log, dev >>

\* the busy-wait between two reads of the status register
poll_delay ==
  /\ poll.pc = "delay"
  /\ poll' = [poll EXCEPT !.pc = "read", !.elapsed = @ + poll_delay_us]
  /\ UNCHANGED << data, pc, calls, offset, bytes, val, bufpos, ret, clk_en,
                  rst, hw, loc, sret, log, dev >>

\* the hardware raises a bit it had still to raise
poll_hw ==
  /\ \E f \in hw.pending :
       /\ hw' = HwComplete(hw, f)
       /\ poll' = [poll EXCEPT !.raised = @ \/ f = poll.flag]
  /\ UNCHANGED << data, pc, calls, offset, bytes, val, bufpos, ret, clk_en,
                  rst, loc, sret, log, dev >>

PollNext == poll_read \/ poll_delay \/ poll_hw

\* the poll is a busy loop of the calling CPU: it keeps running
PollSpec ==
  PollInit /\ [][PollNext]_vars /\ WF_vars(poll_read) /\ WF_vars(poll_delay)

\* C16: a status wait of either poller on a register in which the tested flag
\* is never raised ends, reports the timeout and not a match, and has then
\* waited exactly the bound of 10,000 time-units in steps of one time-unit;
\* no wait reports the timeout before the bound is used up, and every wait
\* comes to an end.
C16_TimeoutAtBound ==
  /\ [](poll.pc = "done" =>
          /\ poll.ret \in {0, -ETIMEDOUT}
          /\ ~poll.raised => poll.ret = -ETIMEDOUT
          /\ poll.ret = -ETIMEDOUT => poll.elapsed = OTPC_TIMEOUT)
  /\ [](poll.pc # "none" => poll.elapsed <= OTPC_TIMEOUT)
  /\ <>(poll.pc = "done")

\* a wait whose flag was never raised has given up at the bound
C16_Witness ==
  /\ poll.pc = "done" /\ ~poll.raised /\ poll.ret = -ETIMEDOUT
  /\ poll.elapsed = OTPC_TIMEOUT /\ poll.flag \notin StatusBits(hw, poll.reg)

(* ---- C17: probe and dispatch ------------------------------------------ *)
\* a device before probe: any node the driver may be bound to (one of them
\* matching no entry of the table), on any SoC; nothing registered yet
NoData == [size |-> 0, reg_read |-> "none"]

ProbeInit ==
  /\ \E compatible \in Compatibles \cup {"none"}, soc \in Socs :
       dev = [compatible |-> compatible, soc |-> soc, size |-> 0, bound |-> FALSE]
  /\ data = NoData
  /\ pc = "probe"
  /\ calls = 0 /\ offset = 0 /\ bytes = 0 /\ val = << >> /\ bufpos = 0
  /\ ret = 0 /\ rst = FALSE /\ loc = NoLocals /\ sret = 0 /\ log = << >>
  /\ clk_en = [c \in ClockSet |-> 0]
  /\ hw = HwInit
  /\ poll = NoPoll

\* rockchip_otp_probe up to nvmem_register: no match, or a resource that
\* cannot be had, fails the probe; else otp->data and otp_config.size are set
probe ==
  /\ pc = "probe"
  /\ \/ /\ dev.compatible \notin Compatibles
        /\ ret' = -EINVAL
        /\ pc' = "probe_failed"
        /\ UNCHANGED << data, dev >>
     \/ /\ dev.compatible \in Compatibles
        /\ ret' = -ENOMEM
        /\ pc' = "probe_failed"
        /\ UNCHANGED << data, dev >>
     \/ /\ dev.compatible \in Compatibles
        /\ data' = rockchip_otp_probe(dev.compatible, dev.soc)
        /\ dev' = [dev EXCEPT !.size = data'.size, !.bound = TRUE]
        /\ ret' = 0
        /\ pc' = "idle"
  /\ UNCHANGED << calls, offset, bytes, val, bufpos, clk_en, rst, hw, loc,
                  sret, log, poll >>

\* return otp->data->reg_read(context, offset, val, bytes): the engine entered
\* by the dispatcher runs and hands back r
reg_read_returns(r) ==
  /\ pc \in {"px30_clk", "rk3308bs_check"}
  /\ ret' = r
  /\ log' = Append(log, Ev("return", data.reg_read, r, 0))
  /\ pc' = "return"
  /\ UNCHANGED << dev, poll, data, calls, offset, bytes, val, bufpos, clk_en,
                  rst, hw, loc, sret >>

ProbeNext ==
  \/ probe
  \/ \E o \in Offsets, n \in Lengths : rockchip_otp_read(o, n)
  \/ \E r \in {0, -EINVAL, -ETIMEDOUT} : reg_read_returns(r)
  \/ Return

ProbeSpec == ProbeInit /\ [][ProbeNext]_vars

\* C17: once probe has bound the device, the engine is a function of the
\* node's compatible string and the SoC alone: variant B on rk3308bs and
\* px30s whatever the node says, else the variant of the matched table entry;
\* the registered size is that descriptor's size; descriptor and size never
\* change afterwards; every dispatched read enters that engine with the
\* caller's offset, length and buffer as given; and the read returns what the
\* engine returned.
C17_SelectorAndDispatch ==
  /\ [](dev.bound =>
          /\ data = IF dev.soc \in {"rk3308bs", "px30s"} THEN rk3308bs_data
                    ELSE IF dev.compatible \in {"rockchip,px30-otp", "rockchip,rk3308-otp"}
                         THEN px30_data ELSE rk3308bs_data
          /\ dev.size = data.size
          /\ dev.size = IF data.reg_read = "px30_otp_read" THEN 64 ELSE 128
          /\ pc \in {"px30_clk", "rk3308bs_check"} =>
                /\ pc = IF data.reg_read = "px30_otp_read" THEN "px30_clk"
                        ELSE "rk3308bs_check"
                /\ log = << Ev("call", data.reg_read, offset, bytes) >>
                /\ val = [k \in 1..bytes |-> Untouched]
          /\ pc = "return" => log[Len(log)] = Ev("return", data.reg_read, ret, 0))
  /\ [][/\ dev.bound => (data' = data /\ dev' = dev)
        /\ (pc = "return" /\ pc' = "idle") => ret' = ret]_vars

\* a node declared as px30 on a px30s SoC was bound to variant B with its
\* size, and a read dispatched to it has returned the engine's timeout
C17_Witness ==
  /\ dev.bound /\ dev.compatible = "rockchip,px30-otp" /\ dev.soc = "px30s"
  /\ data = rk3308bs_data /\ dev.size = 128
  /\ pc = "return" /\ ret = -ETIMEDOUT /\ bytes = MaxLen

(* ---- C18 -------------------------------------------------------------- *)
\* the call passed the bounds check of rk3308bs_otp_read
PastCheck == IsB /\ InCall /\ CallOffset < 128

\* the length after the clamp, and the word addresses the claim lists
ClampedBytes == IF CallOffset + CallBytes > 128 THEN 128 - CallOffset ELSE CallBytes
FirstWord == 224 + (CallOffset \div 4)
WordCount == ((CallOffset + ClampedBytes + 3) \div 4) - (CallOffset \div 4)

\* the scratch buffer was allocated, so the read loop was entered
ReachedLoop == \E k \in At("kzalloc", "buf") : log[k].v = 0

\* C18 (as claimed): every returned variant B call that passed the bounds check
\* and entered its read loop wrote exactly the word addresses
\* 224+floor(offset/4) .. 224+ceil((offset+n)/4)-1 to the access-address
\* register.
C18_AllWordsAlways ==
  (PastCheck /\ Returned /\ ReachedLoop) =>
     AccessAddrs = [k \in 1..WordCount |-> FirstWord + (k - 1)]

\* C18 (amended): the word addresses written are an initial segment of
\* 224+floor(offset/4) .. 224+ceil((offset+n)/4)-1, ascending, one per word:
\* all of them when the loop was entered and every read-done wait matched,
\* those up to the word whose read-done wait timed out otherwise, none when
\* the call failed before the loop. Each address write is preceded by the
\* transaction-count write and followed by the read-access write and the
\* read-done wait, and after a match by the acknowledge and the read of the
\* data register. A successful call for offset 0, length 4 reads one word, at
\* address 224, and copies from in-window offset 0.
C18_WordAddresses ==
  (PastCheck /\ Returned) =>
     LET A == Sorted(At("writel", "OTPC_ACCESS_ADDR"))
         T == Polls(OTPC_RDM_IRQ_ST, -ETIMEDOUT)
     IN  /\ Len(A) <= WordCount
         /\ \A k \in 1..Len(A) :
               /\ log[A[k]].v = FirstWord + (k - 1)
               /\ log[A[k] - 1] = Ev("writel", "OTPC_REPR_RD_TRANS_NUM", OTPC_TRANS_NUM, 0)
               /\ log[A[k] + 1] = Ev("writel", "OTPC_MODE_CTRL", OTPC_READ_ACCESS, 0)
               /\ log[A[k] + 2].op = "poll" /\ log[A[k] + 2].v = OTPC_RDM_IRQ_ST
               /\ IF log[A[k] + 2].m = 0
                  THEN /\ log[A[k] + 3] = Ev("writel", "OTPC_IRQ_ST", OTPC_RDM_IRQ_ST, 0)
                       /\ log[A[k] + 4].op = "readl"
                       /\ log[A[k] + 4].reg = "OTPC_RD_DATA"
                  ELSE k = Len(A) /\ log[A[k] + 3].reg # "OTPC_RD_DATA"
         /\ Cardinality(At("readl", "OTPC_RD_DATA")) = Len(A) - Cardinality(T)
         /\ Cardinality(T) <= 1
         /\ (ReachedLoop /\ T = {}) => Len(A) = WordCount
         /\ ~ReachedLoop => Len(A) = 0
         /\ (ret = 0 /\ CallOffset = 0 /\ CallBytes = 4) =>
               /\ Values(At("writel", "OTPC_ACCESS_ADDR")) = << 224 >>
               /\ \E c \in At("memcpy", "val") : log[c].v = 0 /\ log[c].m = 4

\* a successful call for the last three bytes of the first word and the first
\* byte of the second read both words
C18_Witness ==
  /\ PastCheck /\ Returned /\ ret = 0
  /\ CallOffset = 1 /\ CallBytes = MaxLen
  /\ AccessAddrs = << 224, 225 >>

(* ---- C19 -------------------------------------------------------------- *)
\* the events a matched and a timed-out wait for flag leave in the log
Matched(flag) == << Ev("poll", "OTPC_IRQ_ST", flag, 0), Ev("writel", "OTPC_IRQ_ST", flag, 0) >>
TimedOut(flag) == << Ev("poll", "OTPC_IRQ_ST", flag, -ETIMEDOUT) >>
WriteMode(v) == << Ev("writel", "OTPC_MODE_CTRL", v, 0) >>

\* the walks the claim allows from the mode read at entry: each ends either
\* with the walk done (the scratch buffer is allocated next) or with a
\* timed-out wait (the PHY bus clock is disabled next)
Walks(mode) ==
  CASE mode = OTPC_DEEP_STANDBY ->
         { WriteMode(OTPC_STANDBY) \o TimedOut(OTPC_DP2STB_IRQ_ST),
           WriteMode(OTPC_STANDBY) \o Matched(OTPC_DP2STB_IRQ_ST)
             \o WriteMode(OTPC_ACTIVE) \o TimedOut(OTPC_STB2ACT_IRQ_ST),
           WriteMode(OTPC_STANDBY) \o Matched(OTPC_DP2STB_IRQ_ST)
             \o WriteMode(OTPC_ACTIVE) \o Matched(OTPC_STB2ACT_IRQ_ST) }
    [] mode = OTPC_STANDBY ->
         { WriteMode(OTPC_ACTIVE) \o TimedOut(OTPC_STB2ACT_IRQ_ST),
           WriteMode(OTPC_ACTIVE) \o Matched(OTPC_STB2ACT_IRQ_ST) }
    [] mode = OTPC_ACTIVE -> { << >> }
    [] OTHER -> {}

\* C19: in a returned variant B call that entered rk3308bs_otp_active with the
\* mode-control register at deep-standby, standby or active, the events
\* between the read of the mode and the next step of the read call are one of
\* the walks the claim lists for that mode; a walk without a timeout is
\* followed by the allocation of the scratch buffer; a walk ending in a
\* timeout is followed at once by the release of the clocks, the call wrote
\* no word address and read no word, returns the timeout error, and all three
\* clocks are disabled.
C19_WakeUpWalk ==
  (IsB /\ Returned /\ ModeReads # << >>
       /\ ModeReads[1] \in {OTPC_DEEP_STANDBY, OTPC_STANDBY, OTPC_ACTIVE}) =>
     LET a == Sorted(At("readl", "OTPC_MODE_CTRL"))[1]
     IN  \E w \in Walks(ModeReads[1]) :
            LET e == a + Len(w)
                failed == w # << >> /\ w[Len(w)].m = -ETIMEDOUT
            IN  /\ e < Len(log)
                /\ SubSeq(log, a + 1, e) = w
                /\ IF failed
                   THEN /\ log[e + 1] = Ev("disable", "pclk_phy", 1, 0)
                        /\ ret = -ETIMEDOUT
                        /\ At("writel", "OTPC_ACCESS_ADDR") = {}
                        /\ ModeWrites(OTPC_READ_ACCESS) = {}
                        /\ At("readl", "OTPC_RD_DATA") = {}
                        /\ ValUntouched
                        /\ \A c \in ClockSet : clk_en[c] = 0
                   ELSE log[e + 1].op = "kzalloc"

\* a second call found the controller in standby, wrote active only, and
\* its stb2act wait matched
C19_Witness ==
  /\ IsB /\ Returned /\ calls = 2
  /\ ModeReads # << >> /\ ModeReads[1] = OTPC_STANDBY
  /\ Polls(OTPC_STB2ACT_IRQ_ST, 0) # {}
  /\ ModeWrites(OTPC_READ_ACCESS) # {}

(* ---- C20 -------------------------------------------------------------- *)
\* C20 (as claimed): in variant B, over any sequence of read calls, a wait
\* that has just matched saw the completion of the transition written right
\* before it, so the hardware has nothing left to raise for that flag; and
\* every value read from the data register is the word at the address written
\* for that read.
C20_MatchIsOwnCompletion ==
  (IsB /\ InCall) =>
     /\ \A f \in rk3308bs_flags :
           (Len(log) >= 2 /\ SubSeq(log, Len(log) - 1, Len(log)) = Matched(f))
              => f \notin hw.pending
     /\ \A q \in At("readl", "OTPC_RD_DATA") :
           /\ log[q - 4].reg = "OTPC_ACCESS_ADDR"
           /\ log[q].v = OtpWord(log[q - 4].v)

====
